---- MODULE Spec2Model ----
(***************************************************************************)
(* The capacity controller of shipper                                      *)
(* (pkg/controller/capacity/capacity_controller.go): the work queue that   *)
(* drives it, the sync handler of one CapacityTarget and the per-cluster   *)
(* steps the handler runs, with the float64 arithmetic of the             *)
(* percentage-to-replica computation.                                      *)
(***************************************************************************)
EXTENDS Integers, Sequences, FiniteSets, TLC

VARIABLES
    store,      \* the CapacityTarget objects held by the API server, by key
    cache,      \* the same objects as the capacityTargetsLister returns them
    releases,   \* the objects the releasesLister returns, by name
    clusters,   \* each target cluster as the cluster client store shows it
    wq,         \* capacityTargetWorkqueue: queue, dirty, processing, waiting, failures
    worker,     \* the key each capacity target worker holds, <<>> when it is in Get
    crashed,    \* a worker panicked: the process is gone
    clock,      \* the time conditions are stamped with: one tick per sync
    lastSync,   \* what the last run of capacityTargetSyncHandler did
    prevSync,   \* the run before it, and whether anything changed in between
    calc,       \* the arguments and result of the replica computation on its own
    runState    \* where Run is, the workers whose loop has returned, and the
                \* workers that were inside a sync when stopCh was closed

vars == <<store, cache, releases, clusters, wq, worker, crashed, clock,
          lastSync, prevSync, calc, runState>>

(***************************************************************************)
(* Bounds                                                                  *)
(***************************************************************************)
MaxReplicas == 2     \* spec.replicas of a deployment and the pods listed: 0..MaxReplicas
MaxSadPods  == 1     \* pods of a deployment that are not ready: 0..MaxSadPods
MaxTotal    == 25    \* totals the replica computation is checked on: 0..MaxTotal
Threadiness == 1     \* the argument of Run: capacity target workers
MaxPercent  == 100   \* percentages the replica computation is checked on: 0..MaxPercent

(***************************************************************************)
(* Program constants                                                       *)
(***************************************************************************)
SadPodLimit  == 5
MantissaBits == 53   \* float64

Abs(n) == IF n < 0 THEN -n ELSE n
Min(a, b) == IF a < b THEN a ELSE b

(***************************************************************************)
(* float64 arithmetic on the values the computation meets.  A big natural  *)
(* is a sequence of limbs below Base, most significant first; a float64    *)
(* is [m, frac], the value m / 2^frac with m of at most 53 bits.           *)
(***************************************************************************)
LimbBits == 15
Base == 2 ^ LimbBits
FractionLimbs == 4

RECURSIVE BigTrim(_)
BigTrim(n) == IF n # <<>> /\ n[1] = 0 THEN BigTrim(Tail(n)) ELSE n

RECURSIVE BigDivRem(_, _, _)
BigDivRem(n, d, rem) ==
    IF n = <<>> THEN [q |-> <<>>, r |-> rem]
    ELSE LET cur  == rem * Base + n[1]
             rest == BigDivRem(Tail(n), d, cur % d)
         IN  [q |-> <<cur \div d>> \o rest.q, r |-> rest.r]

RECURSIVE BigMulSmall(_, _, _)
BigMulSmall(n, t, carry) ==
    IF n = <<>> THEN (IF carry = 0 THEN <<>> ELSE <<carry>>)
    ELSE LET v == n[Len(n)] * t + carry
         IN  Append(BigMulSmall(SubSeq(n, 1, Len(n) - 1), t, v \div Base), v % Base)

RECURSIVE BigInc(_)
BigInc(n) ==
    IF n = <<>> THEN <<1>>
    ELSE IF n[Len(n)] + 1 < Base THEN [n EXCEPT ![Len(n)] = @ + 1]
    ELSE Append(BigInc(SubSeq(n, 1, Len(n) - 1)), 0)

RECURSIVE BigToInt(_)
BigToInt(n) ==
    IF n = <<>> THEN 0 ELSE BigToInt(SubSeq(n, 1, Len(n) - 1)) * Base + n[Len(n)]

SmallBitLen(x) == CHOOSE k \in 0..LimbBits : x < 2 ^ k /\ (k = 0 \/ x >= 2 ^ (k - 1))

BigBitLen(n) ==
    LET s == BigTrim(n)
    IN  IF s = <<>> THEN 0 ELSE LimbBits * (Len(s) - 1) + SmallBitLen(s[1])

BigOdd(n) == n # <<>> /\ n[Len(n)] % 2 = 1

\* n \div 2^k, with the part dropped classified against one half of 2^k
RECURSIVE BigShiftRight(_, _)
BigShiftRight(n, k) ==
    IF k = 0 THEN [q |-> n, part |-> "zero"]
    ELSE IF k <= LimbBits
    THEN LET d == BigDivRem(n, 2 ^ k, 0)
         IN  [q |-> d.q,
              part |-> IF d.r = 0 THEN "zero"
                       ELSE IF 2 * d.r < 2 ^ k THEN "below"
                       ELSE IF 2 * d.r = 2 ^ k THEN "half" ELSE "above"]
    ELSE LET low == BigDivRem(n, Base, 0)
             up  == BigShiftRight(low.q, k - LimbBits)
         IN  [q |-> up.q,
              part |-> IF low.r = 0 THEN up.part
                       ELSE IF up.part = "zero" THEN "below"
                       ELSE IF up.part = "half" THEN "above" ELSE up.part]

\* m / 2^frac (and, when sticky, a nonzero rest below its last bit) rounded
\* to a 53 bit mantissa, ties to even
RoundToFloat64(m, frac, sticky) ==
    LET drop == BigBitLen(m) - MantissaBits
    IN  IF drop <= 0 THEN [m |-> BigTrim(m), frac |-> frac]
        ELSE LET s    == BigShiftRight(m, drop)
                 part == IF ~sticky THEN s.part
                         ELSE IF s.part = "zero" THEN "below"
                         ELSE IF s.part = "half" THEN "above" ELSE s.part
                 up   == part = "above" \/ (part = "half" /\ BigOdd(s.q))
             IN  [m |-> BigTrim(IF up THEN BigInc(s.q) ELSE s.q), frac |-> frac - drop]

\* float64(p) / d for naturals p, d below Base
Float64Div(p, d) ==
    LET n == BigDivRem(<<p>> \o [i \in 1..FractionLimbs |-> 0], d, 0)
    IN  RoundToFloat64(n.q, FractionLimbs * LimbBits, n.r # 0)

\* x * float64(t) for a natural t below Base
Float64Mul(x, t) == RoundToFloat64(BigMulSmall(x.m, t, 0), x.frac, FALSE)

\* int32(math.Ceil(x)), of -x when negative
Float64Ceil(x, negative) ==
    LET s == BigShiftRight(x.m, x.frac)
    IN  IF negative THEN -BigToInt(s.q)
        ELSE IF s.part = "zero" THEN BigToInt(s.q) ELSE BigToInt(s.q) + 1

calculateReplicaCountFromPercentage(total, percentage) ==
    Float64Ceil(Float64Mul(Float64Div(Abs(percentage), 100), Abs(total)),
                (percentage < 0) # (total < 0))

\* the ceiling of percentage * total / 100 in exact arithmetic
ExactCeil(total, percentage) == -((-(percentage * total)) \div 100)

(***************************************************************************)
(* Names.  Cluster names are strings; byClusterName orders them as strings *)
(* compare, which for the names used is their position in ClusterNames.    *)
(***************************************************************************)
ClusterNames == <<"a", "b", "c">>
Key          == "ns/ct"
ReleaseName  == "rel"

NameRank(name) == CHOOSE i \in 1..Len(ClusterNames) : ClusterNames[i] = name

\* a *int32: <<>> is nil, <<n>> points at n
Nil == <<>>
Ptr(n) == <<n>>

(***************************************************************************)
(* Conditions (pkg/util/cluster, pkg/conditions)                           *)
(***************************************************************************)
Message(text, n, m) == [text |-> text, n |-> n, m |-> m]
NoMessage == Message("", 0, 0)

NewClusterCapacityCondition(type, status, reason, message, now) ==
    [Type |-> type, Status |-> status, Reason |-> reason, Message |-> message,
     LastTransitionTime |-> now]

ConditionIndex(conditions, type) ==
    IF \E i \in 1..Len(conditions) : conditions[i].Type = type
    THEN CHOOSE i \in 1..Len(conditions) : conditions[i].Type = type
    ELSE 0

SetClusterCapacityCondition(clusterStatus, condition) ==
    LET i == ConditionIndex(clusterStatus.Conditions, condition.Type)
    IN  IF i = 0
        THEN [clusterStatus EXCEPT !.Conditions = Append(@, condition)]
        ELSE LET current == clusterStatus.Conditions[i]
             IN  IF /\ current.Status = condition.Status
                    /\ current.Reason = condition.Reason
                    /\ current.Message = condition.Message
                 THEN clusterStatus
                 ELSE [clusterStatus EXCEPT !.Conditions[i] =
                          IF current.Status = condition.Status
                          THEN [condition EXCEPT !.LastTransitionTime =
                                                     current.LastTransitionTime]
                          ELSE condition]

\* the status and reason of a condition of an entry, "" when it has none
ConditionStatus(clusterStatus, type) ==
    LET i == ConditionIndex(clusterStatus.Conditions, type)
    IN  IF i = 0 THEN "" ELSE clusterStatus.Conditions[i].Status
ConditionReason(clusterStatus, type) ==
    LET i == ConditionIndex(clusterStatus.Conditions, type)
    IN  IF i = 0 THEN "" ELSE clusterStatus.Conditions[i].Reason

(***************************************************************************)
(* ClusterCapacityStatus.  AchievedPercent is left out: it is a function   *)
(* of AvailableReplicas and the total, written on the line that writes     *)
(* AvailableReplicas.                                                      *)
(***************************************************************************)
NewClusterCapacityStatus(name) ==
    [Name |-> name, AvailableReplicas |-> 0, SadPods |-> <<>>, Conditions |-> <<>>]

\* byClusterName.Less
byClusterNameLess(x, y) == NameRank(x.Name) < NameRank(y.Name)

RECURSIVE InsertByClusterName(_, _)
InsertByClusterName(sorted, x) ==
    IF sorted = <<>> THEN <<x>>
    ELSE IF byClusterNameLess(x, sorted[1]) THEN <<x>> \o sorted
    ELSE <<sorted[1]>> \o InsertByClusterName(Tail(sorted), x)

RECURSIVE SortByClusterName(_)
SortByClusterName(list) ==
    IF list = <<>> THEN <<>>
    ELSE InsertByClusterName(SortByClusterName(SubSeq(list, 1, Len(list) - 1)),
                             list[Len(list)])

(***************************************************************************)
(* The calls a run of the handler makes, in order                          *)
(***************************************************************************)
Call(op, cluster, replicas, reason, ok) ==
    [op |-> op, cluster |-> cluster, replicas |-> replicas, reason |-> reason, ok |-> ok]

WarningEvent(cluster) == Call("Event", cluster, 0, "FailedCapacityChange", TRUE)

(***************************************************************************)
(* strconv.Atoi on strings over the characters of Digits, "-", "+", "x"    *)
(***************************************************************************)
Digits == <<"0", "1", "2", "3", "4", "5", "6", "7", "8", "9">>
IsDigit(c) == \E i \in 1..Len(Digits) : Digits[i] = c
DigitValue(c) == (CHOOSE i \in 1..Len(Digits) : Digits[i] = c) - 1

RECURSIVE ParseDigits(_)
ParseDigits(s) ==
    IF s = <<>> THEN 0
    ELSE 10 * ParseDigits(SubSeq(s, 1, Len(s) - 1)) + DigitValue(s[Len(s)])

Atoi(s) ==
    LET signed == s # <<>> /\ s[1] \in {"-", "+"}
        body   == IF signed THEN Tail(s) ELSE s
    IN  IF body = <<>> \/ \E i \in 1..Len(body) : ~IsDigit(body[i])
        THEN [err |-> TRUE, n |-> 0]
        ELSE [err |-> FALSE,
              n |-> IF signed /\ s[1] = "-" THEN -ParseDigits(body) ELSE ParseDigits(body)]

(***************************************************************************)
(* The per-cluster steps of the sync handler.  Each returns the cluster    *)
(* status as it leaves it, the calls it made and whether it failed.        *)
(***************************************************************************)
ServerErrorCondition(call, now) ==
    NewClusterCapacityCondition("Operational", "False", "ServerError",
                                Message(call, 0, 0), now)

NoDeployment == [Replicas |-> Nil, AvailableReplicas |-> 0]

findTargetDeploymentForClusterSpec(clusterSpec, clusterStatus, now) ==
    LET name == clusterSpec.Name
        env  == clusters[name]
        l    == Len(env.deployments)
    IN  IF ~env.informer
        THEN [err |-> TRUE, deployment |-> NoDeployment,
              cs |-> SetClusterCapacityCondition(clusterStatus,
                        ServerErrorCondition("GetInformerFactory", now)),
              calls |-> <<Call("GetInformerFactory", name, 0, "", FALSE)>>]
        ELSE IF ~env.list
        THEN [err |-> TRUE, deployment |-> NoDeployment,
              cs |-> SetClusterCapacityCondition(clusterStatus,
                        ServerErrorCondition("ListDeployments", now)),
              calls |-> <<Call("GetInformerFactory", name, 0, "", TRUE),
                          Call("ListDeployments", name, 0, "", FALSE)>>]
        ELSE IF l # 1
        THEN [err |-> TRUE, deployment |-> NoDeployment,
              cs |-> SetClusterCapacityCondition(clusterStatus,
                        NewClusterCapacityCondition("Ready", "False", "MissingDeployment",
                                                    Message("deployments", l, 0), now)),
              calls |-> <<Call("GetInformerFactory", name, 0, "", TRUE),
                          Call("ListDeployments", name, 0, "", TRUE)>>]
        ELSE [err |-> FALSE, deployment |-> env.deployments[1], cs |-> clusterStatus,
              calls |-> <<Call("GetInformerFactory", name, 0, "", TRUE),
                          Call("ListDeployments", name, 0, "", TRUE)>>]

patchDeploymentWithReplicaCount(clusterName, replicaCount, clusterStatus, now) ==
    LET env == clusters[clusterName]
    IN  IF ~env.client
        THEN [err |-> TRUE,
              cs |-> SetClusterCapacityCondition(clusterStatus,
                        ServerErrorCondition("GetClient", now)),
              calls |-> <<Call("GetClient", clusterName, 0, "", FALSE)>>]
        ELSE IF ~env.patch
        THEN [err |-> TRUE,
              cs |-> SetClusterCapacityCondition(clusterStatus,
                        ServerErrorCondition("Patch", now)),
              calls |-> <<Call("GetClient", clusterName, 0, "", TRUE),
                          Call("Patch", clusterName, replicaCount, "", FALSE)>>]
        ELSE [err |-> FALSE, cs |-> clusterStatus,
              calls |-> <<Call("GetClient", clusterName, 0, "", TRUE),
                          Call("Patch", clusterName, replicaCount, "", TRUE)>>]

\* The pod health inspector: the pods of the deployment's selector in the
\* cluster's pod cache, counted, and the ones not ready (at most SadPodLimit).
getSadPodsForDeploymentOnCluster(targetDeployment, clusterName) ==
    LET pods == clusters[clusterName].pods
    IN  IF ~pods.ok
        THEN [err |-> TRUE, podCount |-> 0, sadPodsCount |-> 0, sadPods |-> <<>>]
        ELSE [err |-> FALSE, podCount |-> pods.count, sadPodsCount |-> pods.sad,
              sadPods |-> [i \in 1..Min(pods.sad, SadPodLimit) |-> i]]

getSadPods(targetDeployment, clusterStatus, now) ==
    LET name    == clusterStatus.Name
        inspect == getSadPodsForDeploymentOnCluster(targetDeployment, name)
        listed  == Call("ListPods", name, 0, "", ~inspect.err)
    IN  IF inspect.err
        THEN [err |-> TRUE, panic |-> FALSE, sadPods |-> <<>>, calls |-> <<listed>>,
              cs |-> SetClusterCapacityCondition(clusterStatus,
                        ServerErrorCondition("ListPods", now))]
        ELSE IF targetDeployment.Replicas = Nil
        \* line 413 dereferences the nil pointer line 412 has just found
        THEN [err |-> TRUE, panic |-> TRUE, sadPods |-> <<>>, calls |-> <<listed>>,
              cs |-> clusterStatus]
        ELSE IF targetDeployment.Replicas[1] # inspect.podCount
        THEN [err |-> TRUE, panic |-> FALSE, sadPods |-> <<>>, calls |-> <<listed>>,
              cs |-> SetClusterCapacityCondition(clusterStatus,
                        NewClusterCapacityCondition("Ready", "False", "WrongPodCount",
                            Message("InvalidPodCount", targetDeployment.Replicas[1],
                                    inspect.podCount), now))]
        ELSE IF inspect.sadPodsCount > 0
        THEN [err |-> FALSE, panic |-> FALSE, sadPods |-> inspect.sadPods,
              calls |-> <<listed>>,
              cs |-> SetClusterCapacityCondition(clusterStatus,
                        NewClusterCapacityCondition("Ready", "False", "PodsNotReady",
                            Message("sad pods", inspect.sadPodsCount, 0), now))]
        ELSE [err |-> FALSE, panic |-> FALSE, sadPods |-> inspect.sadPods,
              calls |-> <<listed>>, cs |-> clusterStatus]

(***************************************************************************)
(* capacityTargetSyncHandler                                               *)
(***************************************************************************)
\* The plausible slip: an owner whose UID is not the live Release's is accepted.
getReleaseIgnoringUID(capacityTarget) ==
    IF Len(capacityTarget.OwnerReferences) # 1
    THEN [err |-> "MultipleOwnerReferences", replicas |-> <<>>]
    ELSE LET owner == capacityTarget.OwnerReferences[1]
         IN  IF ~releases[owner.Name].found
             THEN [err |-> "NotFound", replicas |-> <<>>]
             ELSE [err |-> "", replicas |-> releases[owner.Name].replicas]

getReleaseForCapacityTarget(capacityTarget) ==
    IF Len(capacityTarget.OwnerReferences) # 1
    THEN [err |-> "MultipleOwnerReferences", replicas |-> <<>>]
    ELSE LET owner == capacityTarget.OwnerReferences[1]
         IN  IF ~releases[owner.Name].found
             THEN [err |-> "NotFound", replicas |-> <<>>]
             ELSE IF releases[owner.Name].UID # owner.UID
             THEN [err |-> "ReleaseIsGone", replicas |-> <<>>]
             ELSE [err |-> "", replicas |-> releases[owner.Name].replicas]

\* The plausible slip: the search never matches, so every pass appends.
FindClusterStatusNever(list, name) == 0

\* lines 257-264: the index of the last entry of that name, 0 when there is none
FindClusterStatus(list, name) ==
    IF \E i \in 1..Len(list) : list[i].Name = name
    THEN CHOOSE i \in 1..Len(list) :
            /\ list[i].Name = name
            /\ \A j \in (i + 1)..Len(list) : list[j].Name # name
    ELSE 0

\* What writing through clusterStatus does to ct.Status.Clusters: the pointer
\* of line 262 is into the slice, the one of line 267 is to a struct of which
\* line 270 has appended a copy.
StoreClusterStatus(list, i, clusterStatus) ==
    IF i = 0 THEN list ELSE [list EXCEPT ![i] = clusterStatus]

\* lines 254-271: where clusterStatus points, the struct it points to, and
\* ct.Status.Clusters as the append leaves it
ResolveClusterStatus(list, name) ==
    LET i == FindClusterStatus(list, name)
    IN  [i    |-> i,
         cs   |-> IF i = 0 THEN NewClusterCapacityStatus(name) ELSE list[i],
         list |-> IF i = 0 THEN Append(list, NewClusterCapacityStatus(name)) ELSE list]

\* lines 276-280.  A pass is the state of one turn of the loop: the struct
\* clusterStatus points to, the calls made, whether the turn has ended
\* (continue) or panicked, and targetDeployment.
AfterFind(name, found) ==
    [cs |-> found.cs, deployment |-> found.deployment, panic |-> FALSE,
     done |-> found.err,
     calls |-> IF found.err THEN Append(found.calls, WarningEvent(name))
               ELSE found.calls]

\* lines 289-293
AfterPatch(pass, name, patched) ==
    [pass EXCEPT !.cs = patched.cs, !.done = patched.err,
                 !.calls = IF patched.err
                           THEN Append(@ \o patched.calls, WarningEvent(name))
                           ELSE @ \o patched.calls]

\* The plausible slip: the patch is issued whether or not the count differs.
PatchStepAlways(pass, name, replicaCount, now) ==
    IF pass.done THEN pass
    ELSE AfterPatch(pass, name,
                    patchDeploymentWithReplicaCount(name, replicaCount, pass.cs, now))

\* lines 287-295
PatchStep(pass, name, replicaCount, now) ==
    IF pass.done THEN pass
    ELSE IF pass.deployment.Replicas = Nil \/ replicaCount # pass.deployment.Replicas[1]
    THEN AfterPatch(pass, name,
                    patchDeploymentWithReplicaCount(name, replicaCount, pass.cs, now))
    ELSE pass

\* lines 301-309
AfterSadPods(pass, sad) ==
    [pass EXCEPT !.cs = IF ~sad.err /\ Len(sad.sadPods) > 0
                        THEN [sad.cs EXCEPT !.SadPods = sad.sadPods]
                        ELSE sad.cs,
                 !.calls = @ \o sad.calls,
                 !.panic = sad.panic,
                 !.done = sad.err \/ Len(sad.sadPods) > 0]

\* lines 297-300
SadPodsStep(pass, now) ==
    IF pass.done THEN pass
    ELSE AfterSadPods(pass,
            getSadPods(pass.deployment,
                       [pass.cs EXCEPT !.AvailableReplicas =
                                           pass.deployment.AvailableReplicas],
                       now))

\* lines 311-326
ReadyStep(pass, name, replicaCount, now) ==
    IF pass.done THEN pass
    ELSE [pass EXCEPT
             !.cs = SetClusterCapacityCondition(
                        SetClusterCapacityCondition(@,
                            NewClusterCapacityCondition("Ready", "True", "",
                                                        NoMessage, now)),
                        NewClusterCapacityCondition("Operational", "True", "",
                                                    NoMessage, now)),
             !.calls = Append(@, Call("Event", name, replicaCount,
                                      "CapacityChanged", TRUE))]

\* lines 276-326 on the struct clusterStatus points to
reconcilePass(clusterSpec, clusterStatus, replicaCount, now) ==
    ReadyStep(
        SadPodsStep(
            PatchStep(
                AfterFind(clusterSpec.Name,
                          findTargetDeploymentForClusterSpec(clusterSpec, clusterStatus, now)),
                clusterSpec.Name, replicaCount, now),
            now),
        clusterSpec.Name, replicaCount, now)

\* what a turn of the loop leaves of ct.Status.Clusters and of the calls made
LeaveCluster(acc, resolved, pass) ==
    [Status |-> StoreClusterStatus(resolved.list, resolved.i, pass.cs),
     calls |-> acc.calls \o pass.calls,
     panic |-> pass.panic]

reconcileResolved(acc, resolved, clusterSpec, totalReplicaCount, now) ==
    LeaveCluster(acc, resolved,
        reconcilePass(clusterSpec, resolved.cs,
            calculateReplicaCountFromPercentage(totalReplicaCount, clusterSpec.Percent),
            now))

\* one turn of the loop of lines 251-327
reconcileCluster(acc, clusterSpec, totalReplicaCount, now) ==
    IF acc.panic THEN acc
    ELSE reconcileResolved(acc, ResolveClusterStatus(acc.Status, clusterSpec.Name),
                           clusterSpec, totalReplicaCount, now)

RECURSIVE reconcileClusters(_, _, _, _)
reconcileClusters(acc, clusterSpecs, totalReplicaCount, now) ==
    IF clusterSpecs = <<>> THEN acc
    ELSE reconcileClusters(reconcileCluster(acc, clusterSpecs[1], totalReplicaCount, now),
                           Tail(clusterSpecs), totalReplicaCount, now)

\* The plausible slip: the list is handed to Update in the order the loop left it.
StatusToPersistUnsorted(list) == list

\* line 329
StatusToPersist(list) == SortByClusterName(list)

\* a run of the handler: how it ended, the calls it made, the Status.Clusters
\* it started from and the one it handed to Update
Run(result, error, calls, from, updated, persisted, stored) ==
    [result |-> result, error |-> error, calls |-> calls, from |-> from,
     updated |-> updated, persisted |-> persisted, stored |-> stored,
     changedSince |-> FALSE]

NoRun == Run("none", "", <<>>, <<>>, FALSE, <<>>, FALSE)

\* The plausible slip: a failure on a cluster is returned as the sync's error.
persistStatusUnlessClusterFailed(ct, loop, updateOk) ==
    IF loop.panic
    THEN Run("panic", "nil pointer dereference", loop.calls, ct.Status, FALSE, <<>>, FALSE)
    ELSE IF \E i \in 1..Len(loop.calls) : loop.calls[i].reason = "FailedCapacityChange"
    THEN Run("error", "cluster", loop.calls, ct.Status, FALSE, <<>>, FALSE)
    ELSE Run("ok", "",
             loop.calls
                 \o <<Call("Update", "", 0, "", updateOk)>>
                 \o (IF updateOk THEN <<>>
                     ELSE <<Call("Event", "", 0, "FailedCapacityTargetChange", TRUE)>>)
                 \o <<Call("Event", "", 0, "CapacityTargetChanged", TRUE)>>,
             ct.Status, TRUE, StatusToPersist(loop.Status), updateOk)

\* lines 329-349
persistStatus(ct, loop, updateOk) ==
    IF loop.panic
    THEN Run("panic", "nil pointer dereference", loop.calls, ct.Status, FALSE, <<>>, FALSE)
    ELSE Run("ok", "",
             loop.calls
                 \o <<Call("Update", "", 0, "", updateOk)>>
                 \o (IF updateOk THEN <<>>
                     ELSE <<Call("Event", "", 0, "FailedCapacityTargetChange", TRUE)>>)
                 \o <<Call("Event", "", 0, "CapacityTargetChanged", TRUE)>>,
             ct.Status, TRUE, StatusToPersist(loop.Status), updateOk)

\* lines 243-327
syncWithTotal(ct, total, now, updateOk) ==
    IF total.err
    THEN Run("error", "Atoi", <<>>, ct.Status, FALSE, <<>>, FALSE)
    ELSE persistStatus(ct,
            reconcileClusters([Status |-> ct.Status, calls |-> <<>>, panic |-> FALSE],
                              ct.Spec, total.n, now),
            updateOk)

\* lines 238-246
syncWithRelease(ct, release, now, updateOk) ==
    IF release.err # ""
    THEN Run("error", release.err, <<>>, ct.Status, FALSE, <<>>, FALSE)
    ELSE syncWithTotal(ct, Atoi(release.replicas), now, updateOk)

capacityTargetSyncHandler(key, now, updateOk) ==
    IF ~cache[key].known
    THEN Run("ok", "", <<>>, <<>>, FALSE, <<>>, FALSE)
    ELSE syncWithRelease([store[key] EXCEPT !.Status = cache[key].Status],
                         getReleaseForCapacityTarget(
                             [store[key] EXCEPT !.Status = cache[key].Status]),
                         now, updateOk)

(***************************************************************************)
(* The rate limited work queue (client-go workqueue), as the controller    *)
(* uses it: Add behind AddRateLimited, Get, Done, Forget, ShutDown.        *)
(***************************************************************************)
Workers == 1..Threadiness

Add(q, item) ==
    IF q.shuttingDown THEN q
    ELSE IF item \in q.dirty THEN q
    ELSE IF item \in q.processing THEN [q EXCEPT !.dirty = @ \cup {item}]
    ELSE [q EXCEPT !.dirty = @ \cup {item}, !.queue = Append(@, item)]

\* the item is added once the delay the rate limiter gives it has passed
AddRateLimited(q, item) ==
    [q EXCEPT !.failures[item] = @ + 1,
              !.waiting = IF q.shuttingDown THEN @ ELSE @ \cup {item}]

Forget(q, item) == [q EXCEPT !.failures[item] = 0]

Done(q, item) ==
    IF item \in q.dirty
    THEN [q EXCEPT !.processing = @ \ {item}, !.queue = Append(@, item)]
    ELSE [q EXCEPT !.processing = @ \ {item}]

\* lines 111-116 and enqueueCapacityTarget: the informer has the object as
\* the API server holds it, and hands it to AddFunc or UpdateFunc
InformerUpdate(key) ==
    /\ ~crashed
    /\ cache[key] # [known |-> TRUE, Status |-> store[key].Status]
    /\ cache' = [cache EXCEPT ![key] = [known |-> TRUE, Status |-> store[key].Status]]
    /\ wq' = AddRateLimited(wq, key)
    /\ UNCHANGED <<store, releases, clusters, worker, crashed, clock, lastSync,
                   prevSync, calc, runState>>

\* the delay of an AddRateLimited has passed
DelayElapsed(key) ==
    /\ ~crashed
    /\ key \in wq.waiting
    /\ wq' = Add([wq EXCEPT !.waiting = @ \ {key}], key)
    /\ UNCHANGED <<store, cache, releases, clusters, worker, crashed, clock,
                   lastSync, prevSync, calc, runState>>

\* The plausible slip: Done is called as soon as the item is taken, not
\* deferred to the end of the sync.
GetDoneAtOnce(w) ==
    /\ ~crashed
    /\ runState.launched
    /\ w \notin runState.exited
    /\ worker[w] = <<>>
    /\ wq.queue # <<>>
    /\ LET item == Head(wq.queue)
       IN  /\ wq' = [wq EXCEPT !.queue = Tail(@), !.dirty = @ \ {item}]
           /\ worker' = [worker EXCEPT ![w] = <<item>>]
    /\ UNCHANGED <<store, cache, releases, clusters, crashed, clock, lastSync,
                   prevSync, calc, runState>>

\* line 164: a worker Run has launched, and whose loop has not returned,
\* takes the head of the queue
Get(w) ==
    /\ ~crashed
    /\ runState.launched
    /\ w \notin runState.exited
    /\ worker[w] = <<>>
    /\ wq.queue # <<>>
    /\ LET item == Head(wq.queue)
       IN  /\ wq' = [wq EXCEPT !.queue = Tail(@), !.processing = @ \cup {item},
                               !.dirty = @ \ {item}]
           /\ worker' = [worker EXCEPT ![w] = <<item>>]
    /\ UNCHANGED <<store, cache, releases, clusters, crashed, clock, lastSync,
                   prevSync, calc, runState>>

\* the replica count a successful Patch of this run left on a cluster's API server
PatchedReplicas(calls, name, before) ==
    IF \E i \in 1..Len(calls) :
          calls[i].op = "Patch" /\ calls[i].cluster = name /\ calls[i].ok
    THEN LET i == CHOOSE j \in 1..Len(calls) :
                     /\ calls[j].op = "Patch" /\ calls[j].cluster = name /\ calls[j].ok
                     /\ \A h \in (j + 1)..Len(calls) :
                           ~(calls[h].op = "Patch" /\ calls[h].cluster = name /\ calls[h].ok)
         IN  Ptr(calls[i].replicas)
    ELSE before

\* lines 171-211 once the handler has returned: the item is forgotten when
\* the sync returned no error, and done
Finish(w, key, run) ==
    /\ lastSync' = run
    /\ prevSync' = lastSync
    /\ store' = IF run.stored
                THEN [store EXCEPT ![key].Status = run.persisted]
                ELSE store
    /\ clusters' = [name \in DOMAIN clusters |->
                       [clusters[name] EXCEPT
                           !.remote = PatchedReplicas(run.calls, name, @)]]
    /\ wq' = Done(IF run.result = "ok" THEN Forget(wq, key) ELSE wq, key)
    /\ crashed' = (run.result = "panic")
    /\ worker' = [worker EXCEPT ![w] = <<>>]
    /\ clock' = clock + 1
    /\ UNCHANGED <<cache, releases, calc, runState>>

\* processNextCapacityTargetWorkItem past Get: the item the worker holds is
\* synced; the Update call of the sync succeeds or fails
Process(w) ==
    /\ ~crashed
    /\ worker[w] # <<>>
    /\ \E updateOk \in BOOLEAN :
          \E run \in {capacityTargetSyncHandler(worker[w][1], clock, updateOk)} :
              Finish(w, worker[w][1], run)

\* registerEventHandlers: the deployment informer of a cluster has the
\* deployment as that cluster's API server holds it, and the capacity target
\* it belongs to is enqueued
DeploymentInformerUpdate(name) ==
    /\ ~crashed
    /\ Len(clusters[name].deployments) = 1
    /\ clusters[name].deployments[1].Replicas # clusters[name].remote
    /\ clusters' = [clusters EXCEPT ![name].deployments[1].Replicas = clusters[name].remote]
    /\ wq' = AddRateLimited(wq, Key)
    /\ lastSync' = [lastSync EXCEPT !.changedSince = TRUE]
    /\ UNCHANGED <<store, cache, releases, worker, crashed, clock, prevSync, calc,
                   runState>>

\* lines 137-146: the capacity target informer has delivered what the API
\* server holds (the releases lister always has), and Run launches the workers
StartWorkers ==
    /\ ~crashed
    /\ runState.phase = "syncing"
    /\ \A key \in DOMAIN cache : cache[key].known
    /\ runState' = [runState EXCEPT !.phase = "started", !.launched = TRUE]
    /\ UNCHANGED <<store, cache, releases, clusters, wq, worker, crashed, clock,
                   lastSync, prevSync, calc>>

\* The plausible slip: Run returns without shutting the queue down.
StopWithoutShutDown ==
    /\ ~crashed
    /\ runState.phase \in {"syncing", "started"}
    /\ runState' = [runState EXCEPT
                       !.phase = "stopped",
                       !.inFlight = {w \in DOMAIN worker : worker[w] # <<>>}]
    /\ UNCHANGED <<store, cache, releases, clusters, wq, worker, crashed, clock,
                   lastSync, prevSync, calc>>

\* lines 130-131, 137-140 and 150: stopCh is closed; Run returns, from
\* WaitForCacheSync or from its wait on stopCh, and its deferred ShutDown runs
Stop ==
    /\ ~crashed
    /\ runState.phase \in {"syncing", "started"}
    /\ runState' = [runState EXCEPT
                       !.phase = "stopped",
                       !.inFlight = {w \in DOMAIN worker : worker[w] # <<>>}]
    /\ wq' = [wq EXCEPT !.shuttingDown = TRUE]
    /\ UNCHANGED <<store, cache, releases, clusters, worker, crashed, clock,
                   lastSync, prevSync, calc>>

\* lines 164-168 and 157: Get reports shutdown once the queue is shut down and
\* empty, processNextCapacityTargetWorkItem returns false and the loop ends
WorkerReturns(w) ==
    /\ ~crashed
    /\ runState.launched
    /\ w \notin runState.exited
    /\ worker[w] = <<>>
    /\ wq.shuttingDown
    /\ wq.queue = <<>>
    /\ runState' = [runState EXCEPT !.exited = @ \cup {w}]
    /\ UNCHANGED <<store, cache, releases, clusters, wq, worker, crashed, clock,
                   lastSync, prevSync, calc>>

\* the controller until stopCh is closed
Next ==
    \/ \E key \in DOMAIN store : InformerUpdate(key)
    \/ \E key \in DOMAIN store : DelayElapsed(key)
    \/ StartWorkers
    \/ \E w \in DOMAIN worker : Get(w)
    \/ \E w \in DOMAIN worker : Process(w)
    \/ \E name \in DOMAIN clusters : DeploymentInformerUpdate(name)

\* the controller with the closing of stopCh
NextRun ==
    \/ Next
    \/ Stop
    \/ \E w \in DOMAIN worker : WorkerReturns(w)

(***************************************************************************)
(* Initial states: the controller is constructed, its queue is empty, the  *)
(* informers have delivered nothing.  What it finds around it is drawn     *)
(* from the sets below.                                                    *)
(***************************************************************************)
Deployment(replicas, available) ==
    [Replicas |-> replicas, AvailableReplicas |-> available]

Pods(count, sad) == [ok |-> TRUE, count |-> count, sad |-> sad]
PodsUnlistable == [ok |-> FALSE, count |-> 0, sad |-> 0]

\* a reachable cluster with one deployment of the selector and these pods
OneDeployment(replicas, pods) ==
    [informer |-> TRUE, list |-> TRUE,
     deployments |-> <<Deployment(replicas, pods.count - pods.sad)>>,
     client |-> TRUE, patch |-> TRUE, pods |-> pods, remote |-> replicas]

Healthy(n) == OneDeployment(Ptr(n), Pods(n, 0))
Unreachable == [Healthy(0) EXCEPT !.informer = FALSE]
ListFails == [Healthy(0) EXCEPT !.list = FALSE]
NoDeployments == [Healthy(0) EXCEPT !.deployments = <<>>]
TwoDeployments ==
    [Healthy(0) EXCEPT !.deployments = <<Deployment(Ptr(0), 0), Deployment(Ptr(0), 0)>>]
ClientFails(replicas) == [OneDeployment(replicas, Pods(0, 0)) EXCEPT !.client = FALSE]
PatchFails(replicas) == [OneDeployment(replicas, Pods(0, 0)) EXCEPT !.patch = FALSE]

ReplicaValues == {Nil} \cup {Ptr(n) : n \in 0..MaxReplicas}
PodStates ==
    {PodsUnlistable}
        \cup UNION {{Pods(n, sad) : sad \in 0..Min(n, MaxSadPods)} : n \in 0..MaxReplicas}

ClusterStates ==
    {Unreachable, ListFails, NoDeployments, TwoDeployments}
        \cup {OneDeployment(r, pods) : r \in ReplicaValues, pods \in PodStates}
        \cup {ClientFails(r) : r \in ReplicaValues}
        \cup {PatchFails(r) : r \in ReplicaValues}

\* sequences without repetition of the elements of a set
RECURSIVE Arrangements(_)
Arrangements(S) ==
    {<<>>} \cup UNION {{<<x>> \o rest : rest \in Arrangements(S \ {x})} : x \in S}

Permutations3(S) == {p \in Arrangements(S) : Len(p) = Cardinality(S)}

ClusterSpec(name, percent) == [Name |-> name, Percent |-> percent]
PercentOf == [a |-> 50, b |-> 100, c |-> 100]

OwnerUID == "uid-1"
Owner(uid) == [Name |-> ReleaseName, UID |-> uid]
Release(found, uid, replicas) ==
    [r \in {ReleaseName} |-> [found |-> found, UID |-> uid, replicas |-> replicas]]

EmptyQueue ==
    [queue |-> <<>>, dirty |-> {}, processing |-> {}, waiting |-> {},
     failures |-> [k \in {Key} |-> 0], shuttingDown |-> FALSE]

NoCalc == [total |-> 0, percentage |-> 0, done |-> FALSE, replicas |-> 0]

\* Run waits for the caches; no worker is launched, no stop signal given
NotStarted ==
    [phase |-> "syncing", launched |-> FALSE, exited |-> {}, inFlight |-> {}]

InitController ==
    /\ wq = EmptyQueue
    /\ worker = [w \in Workers |-> <<>>]
    /\ crashed = FALSE
    /\ clock = 1
    /\ lastSync = NoRun
    /\ prevSync = NoRun
    /\ cache = [k \in {Key} |-> [known |-> FALSE, Status |-> <<>>]]
    /\ runState = NotStarted

InitObjects(names, owners, release) ==
    /\ \E order \in Permutations3(names), prior \in Arrangements(names) :
          store = [k \in {Key} |->
                     [OwnerReferences |-> owners,
                      Spec |-> [i \in 1..Len(order) |-> ClusterSpec(order[i], PercentOf[order[i]])],
                      Status |-> [i \in 1..Len(prior) |-> NewClusterCapacityStatus(prior[i])]]]
    /\ releases = release

\* what the capacity target asks of a cluster under a release of 2 replicas
DesiredOf ==
    [name \in DOMAIN PercentOf |-> calculateReplicaCountFromPercentage(2, PercentOf[name])]
Desired(name) == DesiredOf[name]

\* the states of a set of clusters in which one cluster is in a state of
\* varied[name] and the others are in a state of plain[name]
ClusterAssignments(names, varied, plain) ==
    UNION {{[n \in names |-> IF n = name THEN st ELSE p[n]] :
                st \in varied[name],
                p \in {q \in [names -> UNION {plain[m] : m \in names}] :
                          \A m \in names : q[m] \in plain[m]}} :
           name \in names}

\* the states a cluster is in most of the time: it runs what the capacity
\* target asks of it, or it cannot be reached
PlainStates == [name \in DOMAIN PercentOf |-> {Healthy(Desired(name)), Unreachable}]
AnyState == [name \in DOMAIN PercentOf |-> ClusterStates]

\* a capacity target owned by a release of 2 replicas, and two clusters of
\* which at most one is in a state that is not plain
Init ==
    /\ InitController
    /\ InitObjects({"a", "b"}, <<Owner(OwnerUID)>>, Release(TRUE, OwnerUID, <<"2">>))
    /\ clusters \in ClusterAssignments({"a", "b"}, AnyState, PlainStates)
    /\ calc = NoCalc

Spec == Init /\ [][Next]_vars

(***************************************************************************)
(* The same controller around a capacity target whose owner references,    *)
(* Release and replicas annotation are drawn from the cases the handler    *)
(* tells apart.                                                            *)
(***************************************************************************)
OwnerReferenceLists ==
    {<<>>, <<Owner(OwnerUID)>>, <<Owner("uid-0")>>, <<Owner(OwnerUID), Owner("uid-2")>>}

Annotations == {<<>>, <<"x">>, <<"-", "1">>, <<"0">>, <<"2">>}

ReleaseListings ==
    {Release(FALSE, OwnerUID, <<>>)} \cup {Release(TRUE, OwnerUID, a) : a \in Annotations}

ConfigClusterStates == {Healthy(1), Unreachable}

InitConfig ==
    /\ InitController
    /\ \E owners \in OwnerReferenceLists, release \in ReleaseListings :
          InitObjects({"a", "b"}, owners, release)
    /\ clusters \in [{"a", "b"} -> ConfigClusterStates]
    /\ calc = NoCalc

SpecConfig == InitConfig /\ [][Next]_vars

(***************************************************************************)
(* Three clusters, all of them running what the capacity target asks, or   *)
(* all but one.                                                            *)
(***************************************************************************)
\* the deployment has the pods asked for, and a replica count still to patch
Lagging(n) == OneDeployment(Ptr(0), Pods(n, 0))

HealthyState == [name \in DOMAIN PercentOf |-> {Healthy(Desired(name))}]
OneOffStates ==
    [name \in DOMAIN PercentOf |->
        {Healthy(Desired(name)), Unreachable, ListFails, PatchFails(Ptr(0)),
         ClientFails(Ptr(0)), Lagging(Desired(name))}]

InitThree ==
    /\ InitController
    /\ InitObjects({"a", "b", "c"}, <<Owner(OwnerUID)>>, Release(TRUE, OwnerUID, <<"2">>))
    /\ clusters \in ClusterAssignments({"a", "b", "c"}, OneOffStates, HealthyState)
    /\ calc = NoCalc

SpecThree == InitThree /\ [][Next]_vars

(***************************************************************************)
(* calculateReplicaCountFromPercentage on its own                          *)
(***************************************************************************)
InitMath ==
    /\ InitController
    /\ store = [k \in {Key} |->
                   [OwnerReferences |-> <<Owner(OwnerUID)>>,
                    Spec |-> <<ClusterSpec("a", PercentOf["a"])>>,
                    Status |-> <<>>]]
    /\ releases = Release(TRUE, OwnerUID, <<"2">>)
    /\ clusters = [name \in {"a"} |-> Healthy(1)]
    /\ calc \in [total : 0..MaxTotal, percentage : 0..MaxPercent,
                 done : {FALSE}, replicas : {0}]

Calculate ==
    /\ ~calc.done
    /\ calc' = [calc EXCEPT !.done = TRUE,
                            !.replicas = calculateReplicaCountFromPercentage(
                                             calc.total, calc.percentage)]
    /\ UNCHANGED <<store, cache, releases, clusters, wq, worker, crashed, clock,
                   lastSync, prevSync, runState>>

NextMath == Calculate

SpecMath == InitMath /\ [][NextMath]_vars

(***************************************************************************)
(* Run called with a threadiness of PoolSize, and two capacity targets in  *)
(* the namespace: the one the deployments belong to, and one that names no *)
(* cluster.                                                                *)
(***************************************************************************)
PoolSize == 2

OtherKey == "ns/other"
QueueKeys == {Key, OtherKey}

InitQueue ==
    /\ wq = [EmptyQueue EXCEPT !.failures = [k \in QueueKeys |-> 0]]
    /\ worker = [w \in 1..PoolSize |-> <<>>]
    /\ crashed = FALSE
    /\ clock = 1
    /\ lastSync = NoRun
    /\ prevSync = NoRun
    /\ cache = [k \in QueueKeys |-> [known |-> FALSE, Status |-> <<>>]]
    /\ runState = NotStarted
    /\ \E order \in Permutations3({"a", "b"}) :
          store = [k \in QueueKeys |->
                     [OwnerReferences |-> <<Owner(OwnerUID)>>,
                      Spec |-> IF k = Key
                               THEN [i \in 1..Len(order) |->
                                        ClusterSpec(order[i], PercentOf[order[i]])]
                               ELSE <<>>,
                      Status |-> <<>>]]
    /\ releases = Release(TRUE, OwnerUID, <<"2">>)
    /\ clusters \in ClusterAssignments({"a", "b"}, OneOffStates, HealthyState)
    /\ calc = NoCalc

SpecQueue == InitQueue /\ [][Next]_vars

(***************************************************************************)
(* Run to its return: stopCh is closed at any moment.  The scheduler gives *)
(* every goroutine its turn, calls to the API servers return, and a delay  *)
(* of the rate limiter elapses.                                            *)
(***************************************************************************)
InitRun ==
    /\ InitController
    /\ InitObjects({"a", "b"}, <<Owner(OwnerUID)>>, Release(TRUE, OwnerUID, <<"2">>))
    /\ clusters \in ClusterAssignments({"a", "b"}, OneOffStates, HealthyState)
    /\ calc = NoCalc

\* Process(w) is enabled exactly while the worker holds a key and the process
\* has not crashed, and a step of it leaves the worker without a key: weak
\* fairness of Process(w) is that the worker is without a key again and again
Fairness ==
    /\ \A w \in Workers :
          /\ WF_vars(Get(w))
          /\ []<>(crashed \/ worker[w] = <<>>)
          /\ WF_vars(WorkerReturns(w))
    /\ WF_vars(DelayElapsed(Key))

SpecRun == InitRun /\ [][NextRun]_vars /\ Fairness

(***************************************************************************)
(* Clusters that change between syncs: the pods of a deployment become     *)
(* ready, a cluster drops out of the cluster store's reach and comes back. *)
(* The clock is past MaxSyncs when reach stops changing.                   *)
(***************************************************************************)
MaxSyncs == 3

\* the deployment has the replica count asked for, and a pod that is not ready
SadPod(n) == OneDeployment(Ptr(n), Pods(n, 1))

\* the pods of a cluster's deployment are all ready now; the deployment's
\* status changes with them, and the capacity target it belongs to is enqueued
PodsBecomeReady(name) ==
    /\ ~crashed
    /\ Len(clusters[name].deployments) = 1
    /\ clusters[name].pods.ok
    /\ clusters[name].pods.sad > 0
    /\ clusters' = [clusters EXCEPT
                       ![name].pods.sad = 0,
                       ![name].deployments[1].AvailableReplicas = clusters[name].pods.count]
    /\ wq' = AddRateLimited(wq, Key)
    /\ lastSync' = [lastSync EXCEPT !.changedSince = TRUE]
    /\ UNCHANGED <<store, cache, releases, worker, crashed, clock, prevSync, calc,
                   runState>>

\* GetInformerFactory starts to fail for a cluster
ClusterLost(name) ==
    /\ ~crashed
    /\ clock <= MaxSyncs
    /\ clusters[name].informer
    /\ clusters' = [clusters EXCEPT ![name].informer = FALSE]
    /\ lastSync' = [lastSync EXCEPT !.changedSince = TRUE]
    /\ UNCHANGED <<store, cache, releases, wq, worker, crashed, clock, prevSync, calc,
                   runState>>

\* GetInformerFactory succeeds for the cluster again
ClusterFound(name) ==
    /\ ~crashed
    /\ clock <= MaxSyncs
    /\ ~clusters[name].informer
    /\ clusters' = [clusters EXCEPT ![name].informer = TRUE]
    /\ lastSync' = [lastSync EXCEPT !.changedSince = TRUE]
    /\ UNCHANGED <<store, cache, releases, wq, worker, crashed, clock, prevSync, calc,
                   runState>>

NextDrift ==
    \/ Next
    \/ \E name \in DOMAIN clusters : PodsBecomeReady(name)
    \/ \E name \in DOMAIN clusters : ClusterLost(name)
    \/ \E name \in DOMAIN clusters : ClusterFound(name)

\* one cluster, whose deployment has the replica count asked for or is still
\* to be patched, and whose pods are ready or not
DriftStates ==
    {Healthy(Desired("a")), SadPod(Desired("a")), Lagging(Desired("a"))}

InitDrift ==
    /\ InitController
    /\ InitObjects({"a"}, <<Owner(OwnerUID)>>, Release(TRUE, OwnerUID, <<"2">>))
    /\ clusters \in [{"a"} -> DriftStates]
    /\ calc = NoCalc

SpecDrift == InitDrift /\ [][NextDrift]_vars

(***************************************************************************)
(* Properties of the runs of the sync handler                              *)
(***************************************************************************)
SpecClusterNames == {store[Key].Spec[i].Name : i \in 1..Len(store[Key].Spec)}

EntriesNamed(list, name) == {i \in 1..Len(list) : list[i].Name = name}

NoDuplicateNames(list) ==
    \A i, j \in 1..Len(list) : list[i].Name = list[j].Name => i = j

SortedByName(list) ==
    \A i \in 1..(Len(list) - 1) : NameRank(list[i].Name) <= NameRank(list[i + 1].Name)

\* some entry of that name has the condition with that status and reason
Carries(list, name, type, status) ==
    \E i \in EntriesNamed(list, name) : ConditionStatus(list[i], type) = status
CarriesReason(list, name, type, status, reason) ==
    \E i \in EntriesNamed(list, name) :
        /\ ConditionStatus(list[i], type) = status
        /\ ConditionReason(list[i], type) = reason

\* the entries of a list, each with the types, statuses and reasons of its
\* conditions
Outline(list) ==
    [i \in 1..Len(list) |->
        [Name |-> list[i].Name,
         Conditions |-> [j \in 1..Len(list[i].Conditions) |->
                            [Type |-> list[i].Conditions[j].Type,
                             Status |-> list[i].Conditions[j].Status,
                             Reason |-> list[i].Conditions[j].Reason]]]]

CallsTo(calls, op, name) ==
    {i \in 1..Len(calls) : calls[i].op = op /\ calls[i].cluster = name}

\* the last two runs both reached Update, the first one's Update succeeded,
\* the second started from what it stored, and no deployment informer saw a
\* change in between
SyncedTwiceUnchanged ==
    /\ prevSync.updated /\ prevSync.stored /\ ~prevSync.changedSince
    /\ lastSync.updated /\ lastSync.from = prevSync.persisted

\* C1: two runs of the sync in succession with nothing changed in between,
\* the second starting from the status the first persisted, persist the same
\* Status.Clusters: the same entries with the same condition statuses and
\* reasons, and no duplicate entries.
IdempotentSync ==
    SyncedTwiceUnchanged
        => /\ Outline(lastSync.persisted) = Outline(prevSync.persisted)
           /\ NoDuplicateNames(lastSync.persisted)

\* C2: the Status.Clusters a sync hands to Update is sorted in ascending
\* order of cluster name, whatever the order of Spec.Clusters and of the
\* prior Status.Clusters.
PersistedSortedByName == lastSync.updated => SortedByName(lastSync.persisted)

UnsortedStatusPersistedSorted ==
    /\ lastSync.updated
    /\ Len(lastSync.from) >= 2
    /\ ~SortedByName(lastSync.from)
    /\ ~SortedByName(store[Key].Spec)
    /\ SortedByName(lastSync.persisted)

\* C3: after a sync that reaches Update, started from a status without
\* duplicate names, every cluster name of Spec.Clusters has exactly one
\* entry in the persisted Status.Clusters.
OneEntryPerSpecCluster ==
    (lastSync.updated /\ NoDuplicateNames(lastSync.from))
        => \A name \in SpecClusterNames :
              Cardinality(EntriesNamed(lastSync.persisted, name)) = 1

EntryCreatedAndEntryFound ==
    /\ lastSync.updated
    /\ NoDuplicateNames(lastSync.from)
    /\ \E created, found \in SpecClusterNames :
          /\ EntriesNamed(lastSync.from, created) = {}
          /\ EntriesNamed(lastSync.from, found) # {}
          /\ Cardinality(EntriesNamed(lastSync.persisted, created)) = 1
          /\ Cardinality(EntriesNamed(lastSync.persisted, found)) = 1

\* a cluster whose cluster store lookup, deployment listing or patch fails
FailingStates == {Unreachable, ListFails, PatchFails(Ptr(0)), ClientFails(Ptr(0))}

\* C4: with three spec clusters of which exactly one fails and two are
\* healthy, the status a sync persists has an entry for all three, the
\* failing cluster's entry carries Operational=False and neither of the
\* other two does.
OneFailureOfThreeIsolated ==
    \A failing \in DOMAIN clusters :
        (/\ lastSync.updated
         /\ Cardinality(DOMAIN clusters) = 3
         /\ clusters[failing] \in FailingStates
         /\ \A other \in DOMAIN clusters \ {failing} :
               clusters[other] = Healthy(Desired(other)))
            => /\ \A name \in DOMAIN clusters :
                     EntriesNamed(lastSync.persisted, name) # {}
               /\ Carries(lastSync.persisted, failing, "Operational", "False")
               /\ \A other \in DOMAIN clusters \ {failing} :
                     ~Carries(lastSync.persisted, other, "Operational", "False")

\* the owner references are not exactly one, or the one names a Release
\* whose UID is another
BadOwner ==
    LET owners == store[Key].OwnerReferences
    IN  \/ Len(owners) # 1
        \/ /\ releases[owners[1].Name].found
           /\ releases[owners[1].Name].UID # owners[1].UID

\* C5: a capacity target with an owner reference count other than 1, or
\* whose owner reference has a UID other than the live Release's, makes the
\* sync return an error before it touches a cluster (no cluster store
\* lookup, no patch) and before it writes a status (no Update).
BadOwnerFailsBeforeAnyCall ==
    (BadOwner /\ lastSync.result # "none")
        => /\ lastSync.result = "error"
           /\ lastSync.calls = <<>>
           /\ ~lastSync.updated
           /\ ~lastSync.stored
           /\ store[Key].Status = lastSync.from

ReleaseIsGoneSeen ==
    /\ BadOwner
    /\ Len(store[Key].OwnerReferences) = 1
    /\ lastSync.result = "error"
    /\ lastSync.error = "ReleaseIsGone"
    /\ lastSync.calls = <<>>

\* C6: for every percent in 0..100 and every total >= 0 the replica count
\* computed is exactly the ceiling of percent * total / 100.
ReplicaCountIsCeiling ==
    calc.done => calc.replicas = ExactCeil(calc.total, calc.percentage)

\* C7: when the Release's total replica count is 0 or negative the sync
\* signals an error and patches no deployment with a value computed from it.
NonPositiveTotalRejected ==
    LET total == Atoi(releases[ReleaseName].replicas)
    IN  (/\ lastSync.result # "none"
         /\ ~BadOwner
         /\ releases[ReleaseName].found
         /\ ~total.err
         /\ total.n <= 0)
            => /\ lastSync.result = "error"
               /\ \A i \in 1..Len(lastSync.calls) : lastSync.calls[i].op # "Patch"

\* C8: a cluster whose deployment listing returns anything but exactly one
\* match gets Ready=False with reason MissingDeployment, and no patch is
\* attempted against it in that sync.
NotOneDeploymentIsMissingDeployment ==
    \A name \in SpecClusterNames :
        (/\ lastSync.updated
         /\ clusters[name].informer
         /\ clusters[name].list
         /\ Len(clusters[name].deployments) # 1)
            => /\ CarriesReason(lastSync.persisted, name, "Ready", "False",
                                "MissingDeployment")
               /\ CallsTo(lastSync.calls, "Patch", name) = {}
               /\ CallsTo(lastSync.calls, "GetClient", name) = {}

\* C9: when the patch of a cluster succeeds and the pod listing that follows
\* reports a pod count other than the replica count requested, the cluster
\* gets Ready=False with reason WrongPodCount, and Ready is not set to True
\* in that sync.  Stated of the clusters that had an entry when the sync
\* started.
WrongPodCountAfterPatch ==
    \A name \in SpecClusterNames :
        (/\ lastSync.updated
         /\ EntriesNamed(lastSync.from, name) # {}
         /\ \E i \in CallsTo(lastSync.calls, "Patch", name) :
               /\ lastSync.calls[i].ok
               /\ lastSync.calls[i].replicas # clusters[name].pods.count
         /\ \E i \in CallsTo(lastSync.calls, "ListPods", name) : lastSync.calls[i].ok)
            => /\ CarriesReason(lastSync.persisted, name, "Ready", "False",
                                "WrongPodCount")
               /\ \A i \in CallsTo(lastSync.calls, "Event", name) :
                     lastSync.calls[i].reason # "CapacityChanged"

\* C10: once processNextCapacityTargetWorkItem has handled a key whose sync
\* returned an error, the key is back with the work queue: waiting for its
\* delay, queued, or being synced again.
ErrorSyncRequeued ==
    lastSync.result = "error"
        => \/ Key \in wq.waiting
           \/ Key \in wq.dirty
           \/ Key \in wq.processing

\* C11: when the Update call of a sync fails, the sync records a warning
\* event, makes no second Update call, and the key is back with the work
\* queue (waiting for its delay, queued, or being synced again) without a
\* new notification.
FailedUpdateRetried ==
    (lastSync.updated /\ ~lastSync.stored)
        => /\ \E i \in CallsTo(lastSync.calls, "Event", "") :
                 lastSync.calls[i].reason = "FailedCapacityTargetChange"
           /\ Cardinality(CallsTo(lastSync.calls, "Update", "")) = 1
           /\ \/ Key \in wq.waiting
              \/ Key \in wq.dirty
              \/ Key \in wq.processing

(***************************************************************************)
(* What a cluster holds for the per-cluster steps of a sync of a capacity  *)
(* target owned by a release of 2 replicas, read off the cluster itself.   *)
(***************************************************************************)
LookupFails(name) == ~clusters[name].informer
ListingFails(name) == clusters[name].informer /\ ~clusters[name].list
WrongCardinality(name) ==
    /\ clusters[name].informer /\ clusters[name].list
    /\ Len(clusters[name].deployments) # 1
HasTarget(name) ==
    /\ clusters[name].informer /\ clusters[name].list
    /\ Len(clusters[name].deployments) = 1
ListedReplicas(name) == clusters[name].deployments[1].Replicas
NeedsPatch(name) == HasTarget(name) /\ ListedReplicas(name) # Ptr(Desired(name))
PatchFailure(name) ==
    NeedsPatch(name) /\ (~clusters[name].client \/ ~clusters[name].patch)
Inspected(name) == HasTarget(name) /\ ~PatchFailure(name)
InspectorFails(name) == Inspected(name) /\ ~clusters[name].pods.ok
\* the pods are listed and the replica count to compare them with is unset
ReplicasUnsetAtPodCount(name) ==
    Inspected(name) /\ clusters[name].pods.ok /\ ListedReplicas(name) = Nil
\* the pods listed are not as many as the replicas the deployment was
\* listed with, or as the replicas requested
PodCountMismatch(name) ==
    /\ Inspected(name) /\ clusters[name].pods.ok /\ ListedReplicas(name) # Nil
    /\ \/ clusters[name].pods.count # ListedReplicas(name)[1]
       \/ clusters[name].pods.count # Desired(name)

PerClusterFailure(name) ==
    \/ LookupFails(name) \/ ListingFails(name) \/ WrongCardinality(name)
    \/ PatchFailure(name) \/ PodCountMismatch(name)

\* the step from a worker holding the key to its sync being over
SyncStep == clock' # clock

ClustersAsSynced == lastSync.result \in {"ok", "panic"} /\ ~lastSync.changedSince

\* the pods listed are neither as many as the replicas the deployment was
\* listed with nor as the replicas requested
PodCountWrong(name) ==
    /\ Inspected(name) /\ clusters[name].pods.ok /\ ListedReplicas(name) # Nil
    /\ clusters[name].pods.count # ListedReplicas(name)[1]
    /\ clusters[name].pods.count # Desired(name)

\* C14: every per-cluster step that fails (cluster lookup, deployment
\* discovery, patch, pod health inspection error, pod count mismatch)
\* records an event against the capacity target for that cluster.
EveryClusterFailureHasEvent ==
    \A name \in SpecClusterNames :
        (/\ ClustersAsSynced
         /\ lastSync.updated
         /\ \/ LookupFails(name) \/ ListingFails(name) \/ WrongCardinality(name)
            \/ PatchFailure(name) \/ InspectorFails(name) \/ PodCountWrong(name))
            => \E i \in CallsTo(lastSync.calls, "Event", name) :
                  lastSync.calls[i].reason = "FailedCapacityChange"

\* the lookup, the discovery, the patch or the health check of the cluster
\* fails
ClusterStepFails(name) ==
    \/ LookupFails(name) \/ ListingFails(name) \/ WrongCardinality(name)
    \/ PatchFailure(name) \/ InspectorFails(name) \/ PodCountWrong(name)
    \/ ReplicasUnsetAtPodCount(name)

\* the run looked the cluster's deployment up and, where its replica count
\* diverges, went on to patch it
ReconcilerRan(run, name) ==
    /\ CallsTo(run.calls, "GetInformerFactory", name) # {}
    /\ NeedsPatch(name) => CallsTo(run.calls, "GetClient", name) # {}

\* C15: within one sync, for every spec cluster that comes after a cluster
\* whose lookup, discovery, patch or health check failed, the reconciler
\* still runs: its deployment is looked up and, if its replica count
\* diverges, patched.
FailureDoesNotStopLaterClusters ==
    \A i, j \in 1..Len(store[Key].Spec) :
        (/\ ClustersAsSynced
         /\ i < j
         /\ ClusterStepFails(store[Key].Spec[i].Name))
            => ReconcilerRan(lastSync, store[Key].Spec[j].Name)

\* some entry of that name has Ready and Operational both True with an
\* empty reason
ReadyAndOperational(list, name) ==
    \E i \in EntriesNamed(list, name) :
        /\ ConditionStatus(list[i], "Ready") = "True"
        /\ ConditionReason(list[i], "Ready") = ""
        /\ ConditionStatus(list[i], "Operational") = "True"
        /\ ConditionReason(list[i], "Operational") = ""

\* the informer was resolved, exactly one deployment matched, any needed
\* patch succeeded, the pod inspector returned no error, the pod count is
\* the replica count requested and no pod is sad
EveryStepSucceeded(name) ==
    /\ Inspected(name)
    /\ clusters[name].pods.ok
    /\ clusters[name].pods.count = Desired(name)
    /\ clusters[name].pods.sad = 0

\* C16: in a sync pass a cluster's Ready and Operational conditions are
\* both set to True with empty reason if and only if every step succeeded
\* for that cluster in that pass.  Stated of the clusters that had an entry
\* when the sync started, on the status the sync persists.
ReadyTrueIffEveryStepSucceeded ==
    \A name \in SpecClusterNames :
        (/\ ClustersAsSynced
         /\ lastSync.updated
         /\ EntriesNamed(lastSync.from, name) # {})
            => (ReadyAndOperational(lastSync.persisted, name)
                    <=> EveryStepSucceeded(name))

\* C17: the only mutation a sync makes to a remote cluster is a patch of
\* the target deployment's replicas: for each spec cluster it processes, at
\* most one patch is issued, it is attempted exactly when the replica count
\* the deployment is listed with is unset or differs from the desired
\* count, it sets replicas to the desired count, and no patch is issued
\* when the count already is the desired one.
PatchOnlyWhenReplicasDiverge ==
    \A name \in SpecClusterNames :
        (ClustersAsSynced /\ CallsTo(lastSync.calls, "GetInformerFactory", name) # {})
            => /\ Cardinality(CallsTo(lastSync.calls, "Patch", name)) <= 1
               /\ CallsTo(lastSync.calls, "GetClient", name) # {} <=> NeedsPatch(name)
               /\ CallsTo(lastSync.calls, "Patch", name) # {}
                     <=> (NeedsPatch(name) /\ clusters[name].client)
               /\ \A i \in CallsTo(lastSync.calls, "Patch", name) :
                     lastSync.calls[i].replicas = Desired(name)
               /\ \A i \in 1..Len(lastSync.calls) :
                     lastSync.calls[i].cluster = name
                         => lastSync.calls[i].op \in
                               {"GetInformerFactory", "ListDeployments", "GetClient",
                                "Patch", "ListPods", "Event"}

OnePatchedOneLeftAlone ==
    /\ ClustersAsSynced
    /\ \E patched, left \in SpecClusterNames :
          /\ NeedsPatch(patched)
          /\ \E i \in CallsTo(lastSync.calls, "Patch", patched) :
                lastSync.calls[i].ok /\ lastSync.calls[i].replicas = Desired(patched)
          /\ HasTarget(left) /\ ~NeedsPatch(left)
          /\ CallsTo(lastSync.calls, "ListPods", left) # {}
          /\ CallsTo(lastSync.calls, "Patch", left) = {}

\* some entry of that name records sad pods
RecordsSadPods(list, name) ==
    \E i \in EntriesNamed(list, name) : list[i].SadPods # <<>>

\* C18: when the pod inspector succeeds, the pod count matches and the sad
\* pod count is greater than zero, the cluster's persisted status records
\* the sad pods and has Ready=False with reason PodsNotReady, and Ready is
\* not set to True for it in that sync.
SadPodsRecordedNotReady ==
    \A name \in SpecClusterNames :
        (/\ ClustersAsSynced
         /\ lastSync.updated
         /\ Inspected(name)
         /\ clusters[name].pods.ok
         /\ clusters[name].pods.count = Desired(name)
         /\ clusters[name].pods.sad > 0)
            => /\ EntriesNamed(lastSync.persisted, name) # {}
               /\ RecordsSadPods(lastSync.persisted, name)
               /\ CarriesReason(lastSync.persisted, name, "Ready", "False", "PodsNotReady")
               /\ \A i \in CallsTo(lastSync.calls, "Event", name) :
                     lastSync.calls[i].reason # "CapacityChanged"

\* C19: when the cluster store cannot resolve a spec cluster, or a patch
\* against it fails, the cluster's persisted status is marked
\* Operational=False with reason ServerError, which is what keeps its
\* earlier values from being read as current, and processing of the cluster
\* stops there: no further patch, no health check.
UnresolvedClusterMarkedServerError ==
    \A name \in SpecClusterNames :
        (/\ ClustersAsSynced
         /\ lastSync.updated
         /\ LookupFails(name) \/ PatchFailure(name))
            => /\ CarriesReason(lastSync.persisted, name, "Operational", "False",
                                "ServerError")
               /\ CallsTo(lastSync.calls, "ListPods", name) = {}
               /\ Cardinality(CallsTo(lastSync.calls, "Patch", name)) <= 1
               /\ LookupFails(name) =>
                     /\ CallsTo(lastSync.calls, "ListDeployments", name) = {}
                     /\ CallsTo(lastSync.calls, "GetClient", name) = {}
               /\ \A i \in CallsTo(lastSync.calls, "Event", name) :
                     lastSync.calls[i].reason # "CapacityChanged"


(***************************************************************************)
(* Properties of the workers and of Run                                    *)
(***************************************************************************)
\* the workers inside the sync handler for a key
Holders(key) == {w \in DOMAIN worker : worker[w] = <<key>>}

\* C12: no two workers are inside the sync handler for the same key at the
\* same time, and a key that is being processed is not in the queue for
\* another worker to take: re-added, it waits for Done.
NoKeyWithTwoWorkers ==
    /\ \A key \in DOMAIN store : Cardinality(Holders(key)) <= 1
    /\ \A i \in 1..Len(wq.queue) : wq.queue[i] \notin wq.processing

\* two workers are inside the handler for two keys, one of the keys re-added
\* in the meantime
TwoKeysInParallelOneReAdded ==
    /\ Holders(Key) # {}
    /\ Holders(OtherKey) # {}
    /\ Key \in wq.dirty
    /\ Key \in wq.processing

Stopped == runState.phase = "stopped"

\* every worker Run launched has left its loop
AllWorkersReturned == runState.launched => runState.exited = DOMAIN worker

\* a worker is inside the sync handler, or the handler has run
HandlerHasRun ==
    \/ \E w \in DOMAIN worker : worker[w] # <<>>
    \/ lastSync.result # "none"

CachesSynced == \A key \in DOMAIN cache : cache[key].known

\* nothing is taken into the queue: no key becomes dirty or starts a delay
NoIntake == wq'.dirty \subseteq wq.dirty /\ wq'.waiting \subseteq wq.waiting

\* a worker lets go of its key only at the end of a sync
SyncsRunToCompletion ==
    \A w \in DOMAIN worker :
        (worker[w] # <<>> /\ worker'[w] # worker[w])
            => /\ worker'[w] = <<>>
               /\ SyncStep
               /\ lastSync'.result \in {"ok", "error"}
               /\ worker[w][1] \notin wq'.processing

Reconciled(name, entry) ==
    reconcilePass(ClusterSpec(name, PercentOf[name]), entry, Desired(name), clock - 1).cs

\* C21: what the per-cluster steps set on a cluster in the sync that creates
\* its entry is in the status that sync persists: the entry persisted for a
\* name that had no entry is the struct the steps wrote to.
FirstSightEntryPersistedAsReconciled ==
    \A name \in SpecClusterNames :
        (/\ ClustersAsSynced
         /\ lastSync.updated
         /\ EntriesNamed(lastSync.from, name) = {})
            => \E i \in EntriesNamed(lastSync.persisted, name) :
                  lastSync.persisted[i] = Reconciled(name, NewClusterCapacityStatus(name))

\* C22: a sync does not crash on a target deployment whose replica count is
\* unset: when the sync comes to a cluster whose one matching deployment has
\* nil replicas and whose patch goes through, it patches the deployment,
\* lists its pods and goes on to the Update call.
NilReplicasSyncReachesUpdate ==
    \A name \in SpecClusterNames :
        (/\ ClustersAsSynced
         /\ CallsTo(lastSync.calls, "GetInformerFactory", name) # {}
         /\ HasTarget(name)
         /\ ListedReplicas(name) = Nil
         /\ ~PatchFailure(name))
            => /\ \E i \in CallsTo(lastSync.calls, "Patch", name) : lastSync.calls[i].ok
               /\ CallsTo(lastSync.calls, "ListPods", name) # {}
               /\ lastSync.result = "ok"
               /\ lastSync.updated
               /\ ~crashed

\* the Status.Clusters the API server holds for the capacity target
PersistedStatus == store[Key].Status

\* C23: in the persisted status, after any sequence of syncs, an entry whose
\* Ready condition is True has an empty sad pod list.
ReadyEntryHasNoSadPods ==
    \A i \in 1..Len(PersistedStatus) :
        ConditionStatus(PersistedStatus[i], "Ready") = "True"
            => PersistedStatus[i].SadPods = <<>>

\* C24: in the persisted status, after any sequence of syncs, no entry has
\* Ready True together with Operational False.
NoReadyEntryNotOperational ==
    \A i \in 1..Len(PersistedStatus) :
        ~(/\ ConditionStatus(PersistedStatus[i], "Ready") = "True"
          /\ ConditionStatus(PersistedStatus[i], "Operational") = "False")

====
